---- MODULE Spec2Model ----
(***************************************************************************)
(* A model of python-git-protocol: the native git:// transport handler     *)
(* (git_server.py) and the Smart HTTP application (http_smart_server.py).   *)
(*                                                                         *)
(* Byte strings and text are TLA+ strings; the byte 0x00, which a TLA+      *)
(* string literal cannot hold, is written NUL == "$" (no other modelled     *)
(* input uses "$").  An optional value (None or a value) is the empty tuple  *)
(* or a one-element tuple.                                                   *)
(***************************************************************************)
EXTENDS Integers, Sequences, FiniteSets, TLC

\* ------------------------------------------------------------------ bounds
\* Longest list of extra parameters a modelled client sends.
MaxExtras == 2
\* Longest request body a modelled HTTP client declares in Content-Length.
MaxBody == 3
\* Longest of the short payloads framed and read back (the long ones sit
\* at the limits of the length field).
MaxPayload == 3
\* Capacity of an operating-system pipe, in bytes.
PipeCap == 2
\* The chunk size of the copy loops, POPEN_READ_SIZE (32768 in the program),
\* scaled down so that bodies of a few bytes span several chunks.
POPEN_READ_SIZE == 2
\* The block size in which the gzip reader reads its compressed input
\* (io.DEFAULT_BUFFER_SIZE in the library), scaled down likewise.
GZIP_READ_SIZE == 1

\* -------------------------------------------------------- program constants
pkt_line_minlength == 5
pkt_line_maxlength == 65524

NUL == "$"
SP == " "

\* Optional values (Python's None or a value): the empty tuple or <<value>>.
None == <<>>
Some(x) == <<x>>

\* ------------------------------------------------- Python string primitives
Min(a, b) == IF a < b THEN a ELSE b
Max(a, b) == IF a > b THEN a ELSE b

\* s[i] as a one-character string (1-based).
Char(s, i) == SubSeq(s, i, i)
\* s[n:]
Drop(s, n) == SubSeq(s, n + 1, Len(s))
\* s[:n] for n >= 0
Take(s, n) == SubSeq(s, 1, Min(n, Len(s)))
\* s[:-n]
DropLast(s, n) == SubSeq(s, 1, Len(s) - n)

StartsWith(s, p) == Len(s) >= Len(p) /\ SubSeq(s, 1, Len(p)) = p
EndsWith(s, p) == Len(s) >= Len(p) /\ SubSeq(s, Len(s) - Len(p) + 1, Len(s)) = p

\* Index of the first occurrence of the one-character string c in s at or
\* after position i; 0 when there is none.
RECURSIVE Find(_, _, _)
Find(s, c, i) ==
    IF i > Len(s) THEN 0
    ELSE IF Char(s, i) = c THEN i
    ELSE Find(s, c, i + 1)

\* s.split(sep) for a one-character separator: count(sep) + 1 parts.
RECURSIVE Split(_, _)
Split(s, sep) ==
    LET i == Find(s, sep, 1)
    IN  IF i = 0 THEN <<s>>
        ELSE <<SubSeq(s, 1, i - 1)>> \o Split(Drop(s, i), sep)

\* s.split(sep, maxsplit): at most maxsplit splits, the rest kept whole.
RECURSIVE SplitMax(_, _, _)
SplitMax(s, sep, maxsplit) ==
    LET i == Find(s, sep, 1)
    IN  IF maxsplit = 0 \/ i = 0 THEN <<s>>
        ELSE <<SubSeq(s, 1, i - 1)>> \o SplitMax(Drop(s, i), sep, maxsplit - 1)

\* s.rsplit(sep, 1)[-1]: what follows the last separator (all of s if none).
RECURSIVE RSplitLast(_, _)
RSplitLast(s, sep) ==
    LET i == Find(s, sep, 1)
    IN  IF i = 0 THEN s ELSE RSplitLast(Drop(s, i), sep)

HexDigits == "0123456789abcdef"
UpperHexDigits == "ABCDEF"

\* The value of one digit character in the given base, -1 if it is none.
DigitVal(c, base) ==
    LET i == Find(HexDigits, c, 1)
        j == Find(UpperHexDigits, c, 1)
        v == IF i > 0 THEN i - 1 ELSE IF j > 0 THEN j + 9 ELSE -1
    IN  IF v < base THEN v ELSE -1

RECURSIVE DigitsVal(_, _, _)
DigitsVal(s, base, acc) ==
    IF s = "" THEN acc
    ELSE DigitsVal(Drop(s, 1), base, acc * base + DigitVal(Char(s, 1), base))

AllDigits(s, base) == s # "" /\ \A i \in 1..Len(s) : DigitVal(Char(s, i), base) >= 0

\* int(s, base): an optional sign then digits; anything else raises
\* ValueError (ok = FALSE).  Surrounding whitespace, "_" separators and a
\* "0x" prefix, which int() also takes, are not among the modelled inputs.
PyInt(s, base) ==
    LET signed == s # "" /\ Char(s, 1) \in {"+", "-"}
        digits == IF signed THEN Drop(s, 1) ELSE s
        mag == DigitsVal(digits, base, 0)
    IN  IF AllDigits(digits, base)
        THEN [ok |-> TRUE, val |-> IF signed /\ Char(s, 1) = "-" THEN 0 - mag ELSE mag]
        ELSE [ok |-> FALSE, val |-> 0]

\* The digits of n >= 0 in the given base, lower case, no padding.
RECURSIVE ToBase(_, _)
ToBase(n, base) ==
    IF n < base THEN Char(HexDigits, n + 1)
    ELSE ToBase(n \div base, base) \o Char(HexDigits, (n % base) + 1)

RECURSIVE ZeroPad(_, _)
ZeroPad(s, width) == IF Len(s) >= width THEN s ELSE ZeroPad("0" \o s, width)

\* f"{n:04x}"
Hex04(n) == ZeroPad(ToBase(n, 16), 4)
\* str(n) for any integer n
PyStr(n) == IF n < 0 THEN "-" \o ToBase(0 - n, 10) ELSE ToBase(n, 10)

\* b"".join(chunks)
RECURSIVE Concat(_)
Concat(chunks) == IF chunks = <<>> THEN "" ELSE Head(chunks) \o Concat(Tail(chunks))

\* ------------------------------------------------------------ dictionaries
\* A dict is a function from its keys.  a.update(b): b's entries win.
DictUpdate(a, b) ==
    [k \in (DOMAIN a) \cup (DOMAIN b) |-> IF k \in DOMAIN b THEN b[k] ELSE a[k]]

\* ---------------------------------------------------------------- pathlib
\* A path is the tuple of its segments below "/".  The file system: the
\* directories that exist.  The repository root is /s, with one repository
\* /s/r in it; /e is a directory outside the root.
ExistingPaths == { <<>>, <<"s">>, <<"s", "r">>, <<"e">> }
repo_root == <<"s">>

IsSegment(x) == x # "" /\ x # "."
\* The segments of a path string: pathlib drops empty and "." segments on
\* construction and keeps "..".
PathParts(s) == SelectSeq(Split(s, "/"), IsSegment)

\* base / s: an absolute s replaces base.
PathJoin(base, s) == IF StartsWith(s, "/") THEN PathParts(s) ELSE base \o PathParts(s)

RECURSIVE JoinSegments(_)
JoinSegments(p) == IF p = <<>> THEN "" ELSE "/" \o Head(p) \o JoinSegments(Tail(p))
\* str(path)
PathStr(p) == IF p = <<>> THEN "/" ELSE JoinSegments(p)

Parent(p) == IF p = <<>> THEN <<>> ELSE SubSeq(p, 1, Len(p) - 1)

\* Path.resolve() (not strict, no symbolic links): ".." removed lexically.
RECURSIVE ResolveFrom(_, _)
ResolveFrom(cur, rest) ==
    IF rest = <<>> THEN cur
    ELSE IF Head(rest) = ".." THEN ResolveFrom(Parent(cur), Tail(rest))
    ELSE ResolveFrom(Append(cur, Head(rest)), Tail(rest))
Resolve(p) == ResolveFrom(<<>>, p)

\* Path.exists(): the operating system walks the path, and every directory
\* on the way, those left again by "..", has to exist.
RECURSIVE WalkExists(_, _)
WalkExists(cur, rest) ==
    IF cur \notin ExistingPaths THEN FALSE
    ELSE IF rest = <<>> THEN TRUE
    ELSE IF Head(rest) = ".." THEN WalkExists(Parent(cur), Tail(rest))
    ELSE WalkExists(Append(cur, Head(rest)), Tail(rest))
Exists(p) == WalkExists(<<>>, p)

\* The canonical path lies under the root directory.
UnderRoot(p) ==
    LET c == Resolve(p)
    IN  Len(c) >= Len(repo_root) /\ SubSeq(c, 1, Len(repo_root)) = repo_root

\* ===================================================== native transport ===
VARIABLES
    proto,        \* which server handles the run: "git" or "http"
    os_environ,   \* the environment of the server process (a dict)
    sent,         \* what the client encoded into its initial request
    rfile,        \* the bytes of the connection still in the socket, not read
    rbuf,         \* the bytes self.rfile holds in its buffer, read and not consumed
    request_data, \* parse_init_data's local "data": the payload read (None before)
    wfile,        \* the bytes written to the client
    reads,        \* the sizes passed to rfile.read(), in order
    git_request,  \* what parse_init_data returned (None or a GitProtoRequest)
    version,      \* _handle's local "version" (None or an integer)
    popen,        \* the spawned tool process (None or its arguments)
    returncode,   \* the exit status of the tool (None while it runs)
    raised,       \* an exception left _handle (handle() logs it)
    tool_stdin,   \* the bytes the tool read from its standard input
    npc           \* where the handler is: "parse", "handle", "wait", "done"

nativeVars ==
    <<sent, rfile, rbuf, request_data, wfile, reads, git_request, version, returncode, raised,
      tool_stdin, npc>>

\* A variant of pkt_line whose prefix is the length of the message alone.
pkt_line_message_length(msg) == Hex04(Len(msg)) \o msg \o "0000"

\* GitTransportHandler.pkt_line: the length prefix, the message and "0000".
pkt_line(msg) == Hex04(Len(msg) + 4) \o msg \o "0000"

\* GitTransportHandler.exit_session: what it writes to wfile.
exit_session(error_msg) == pkt_line("ERR " \o error_msg)

\* rfile.read(n) on a stream whose sender has finished: up to n bytes.
ReadBytes(stream, n) == Take(stream, n)

\* A variant of the length test with the floor one too low.
LengthOutOfRangeLax(length) == length < 4 \/ length > pkt_line_maxlength

\* The test that rejects a decoded length.
LengthOutOfRange(length) == length < pkt_line_minlength \/ length > pkt_line_maxlength

\* The outcome of parse_init_data reading from stream: the request it
\* returns (None after exit_session or an exception), what it wrote, whether
\* an exception escaped, the read sizes, and the stream left unread.
ParseOutcome(request, reply, exc, sizes, rest) ==
    [request |-> request, reply |-> reply, raised |-> exc, reads |-> sizes, rest |-> rest]

\* A variant of the slice that starts one part early, at the separator.
ExtraParamsFromSeparator(params) == SubSeq(params, 3, Len(params) - 1)

\* Line 188: the extra parameters among the parts of the payload.
ExtraParams(params) == SubSeq(params, 4, Len(params) - 1)

\* Lines 139-145: the length field read and decoded, the length tested and
\* the payload read.  status is "raise" (int() raised), "invalid" (length
\* out of range) or "ok".
ReadPacket(stream) ==
    LET b == ReadBytes(stream, 4)
        after4 == Drop(stream, Len(b))
        length == PyInt(b, 16)
    IN  IF ~length.ok
        THEN [status |-> "raise", length |-> None, data |-> None, reads |-> <<4>>,
              rest |-> after4]
        ELSE IF LengthOutOfRange(length.val)
        THEN [status |-> "invalid", length |-> Some(length.val), data |-> None,
              reads |-> <<4>>, rest |-> after4]
        ELSE LET d == ReadBytes(after4, length.val - 4)
             IN  [status |-> "ok", length |-> Some(length.val), data |-> Some(d),
                  reads |-> <<4, length.val - 4>>, rest |-> Drop(after4, Len(d))]

\* Lines 146-195: the payload split and checked.
ParsePayload(data, sizes, rest) ==
    LET params == Split(data, NUL)
        parts == Split(params[1], SP)
        Reject(msg) == ParseOutcome(None, exit_session(msg), FALSE, sizes, rest)
        Raise == ParseOutcome(None, "", TRUE, sizes, rest)
        Request(hostname, port, extra) ==
            ParseOutcome(Some([command |-> parts[1], pathname |-> parts[2],
                               hostname |-> hostname, port |-> port,
                               extra_parameters |-> extra]),
                         "", FALSE, sizes, rest)
    IN  IF Len(params) < 2 THEN Reject("Invalid reqeust data\n")
        ELSE IF Len(parts) # 2 THEN Reject("Invalid request data\n")
        ELSE IF Len(params) = 2 THEN
            IF params[2] # "" THEN Reject("Invalid request data\n")
            ELSE Request("127.0.0.1", 8194, <<>>)
        ELSE IF Len(params) = 3 THEN
            IF params[3] # "" THEN Reject("Invalid request data\n")
            ELSE IF ~StartsWith(params[2], "host=") THEN Reject("Invalid request host param\n")
            ELSE LET host_parts == SplitMax(params[2], ":", 1)
                     hostname == Drop(host_parts[1], Len("host="))
                 IN  IF Len(host_parts) > 1
                     THEN LET port == PyInt(host_parts[2], 10)
                          IN  IF port.ok THEN Request(hostname, port.val, <<>>) ELSE Raise
                     ELSE Request(hostname, 8194, <<>>)
        ELSE IF ~(params[3] = "" /\ params[Len(params)] = "")
            THEN Reject("Invalid request extra params\n")
            ELSE Request("127.0.0.1", 8194, ExtraParams(params))

\* GitTransportHandler.parse_init_data.
parse_init_data(stream) ==
    LET p == ReadPacket(stream)
    IN  IF p.status = "raise" THEN ParseOutcome(None, "", TRUE, p.reads, p.rest)
        ELSE IF p.status = "invalid"
        THEN ParseOutcome(None, exit_session("Invalid request data\n"), FALSE, p.reads, p.rest)
        ELSE ParsePayload(p.data[1], p.reads, p.rest)

\* A variant of the version loop that stops at the first "version=".
RECURSIVE FirstVersion(_)
FirstVersion(params) ==
    IF params = <<>> THEN [ok |-> TRUE, version |-> None]
    ELSE IF StartsWith(Head(params), "version=")
         THEN LET n == PyInt(Drop(Head(params), Len("version=")), 10)
              IN  [ok |-> n.ok, version |-> IF n.ok THEN Some(n.val) ELSE None]
         ELSE FirstVersion(Tail(params))

\* Lines 93-97: the last extra parameter starting with "version=" decides;
\* int() of a malformed one raises.
RECURSIVE VersionLoop(_, _)
VersionLoop(params, v) ==
    IF params = <<>> THEN [ok |-> TRUE, version |-> v]
    ELSE IF StartsWith(Head(params), "version=")
         THEN LET n == PyInt(Drop(Head(params), Len("version=")), 10)
              IN  IF n.ok THEN VersionLoop(Tail(params), Some(n.val))
                  ELSE [ok |-> FALSE, version |-> v]
         ELSE VersionLoop(Tail(params), v)
ProtocolVersion(extra_parameters) == VersionLoop(extra_parameters, None)

\* Lines 99-103: the env argument of Popen (None: inherit).
PopenEnv(v, environ) ==
    IF v = None THEN None
    ELSE Some(DictUpdate([k \in {"GIT_PROTOCOL"} |-> "version=" \o PyStr(v[1])], environ))

\* The allowed commands (line 81).
NativeCommands == {"git-upload-pack", "git-receive-pack"}

\* A variant of the repository name that keeps a trailing ".git".
NativeRepoNameKeepsSuffix(pathname) == Drop(pathname, 1)

\* Lines 84-87: the repository path of a pathname.
NativeRepoName(pathname) ==
    LET repo_name == Drop(pathname, 1)
    IN  IF EndsWith(repo_name, ".git") THEN DropLast(repo_name, Len(".git")) ELSE repo_name
NativeRepoPath(pathname) == PathJoin(repo_root, NativeRepoName(pathname))

\* The environment the spawned process runs with.
ChildEnv(p) == IF p.env = None THEN os_environ ELSE p.env[1]

\* Lines 81-112 of _handle for a parsed request: what is written to the
\* client, whether an exception escaped, the version found and the process
\* spawned (None if none was).
HandleOutcome(req, environ) ==
    LET repo_name == NativeRepoName(req.pathname)
        repo_path == NativeRepoPath(req.pathname)
        v == ProtocolVersion(req.extra_parameters)
        Outcome(reply, exc, ver, proc) ==
            [reply |-> reply, raised |-> exc, version |-> ver, popen |-> proc]
    IN  IF req.command \notin NativeCommands
        THEN Outcome(exit_session("Not allowed command. \n"), FALSE, None, None)
        ELSE IF ~Exists(repo_path)
        THEN Outcome(exit_session("Not found repo " \o repo_name \o " \n"), FALSE, None, None)
        ELSE IF ~v.ok THEN Outcome("", TRUE, v.version, None)
        ELSE Outcome("", FALSE, v.version,
                     Some([args |-> <<"git", Drop(req.command, Len("git-")), PathStr(repo_path)>>,
                           env |-> PopenEnv(v.version, environ),
                           stdin |-> "rfile", stdout |-> "wfile", stderr |-> "inherit"]))

\* -------------------------------------------------- the client's requests
\* The initial request of a client, per the grammar of the protocol:
\* command SP pathname NUL [host NUL] [NUL (extra NUL)+].
RECURSIVE EncodeExtras(_)
EncodeExtras(extras) ==
    IF extras = <<>> THEN "" ELSE Head(extras) \o NUL \o EncodeExtras(Tail(extras))
EncodeRequest(command, pathname, host, extras) ==
    command \o SP \o pathname \o NUL
    \o (IF host = None THEN "" ELSE host[1] \o NUL)
    \o (IF extras = <<>> THEN "" ELSE NUL \o EncodeExtras(extras))

\* A pkt-line as a client frames it: the length prefix and the payload.
ClientPktLine(payload) == Hex04(Len(payload) + 4) \o payload

ClientCommands == {"git-upload-pack", "git-receive-pack", "git-upload-archive"}
ClientPaths == {"/r", "/r.git", "/x", "/../e", "//e"}
ClientHosts == {None, Some("host=h"), Some("host=h:9"), Some("host=h:x"), Some("h")}
ExtraTokens == {"version=2", "version=1", "a=b"}
ExtraLists ==
    (UNION {[1..n -> ExtraTokens] : n \in 0..MaxExtras}) \cup {<<"version=x">>, <<"version=02">>}

SentRecord(kind, command, pathname, host, extras, field, payload) ==
    [kind |-> kind, command |-> command, pathname |-> pathname, host |-> host,
     extras |-> extras, lenField |-> field, payload |-> payload, after |-> ""]

\* Requests that follow the grammar, framed with their true length.
WellFormedRequests ==
    { SentRecord("grammar", c, p, h, e,
                 Hex04(Len(EncodeRequest(c, p, h, e)) + 4), EncodeRequest(c, p, h, e)) :
        c \in ClientCommands, p \in ClientPaths, h \in ClientHosts, e \in ExtraLists }

\* One payload under length fields of every kind: out of range at both
\* ends, the accepted extremes, signed, and not hexadecimal.
LenFields == {"0000", "0004", "0005", "fff4", "fff5", "ffff", "-001", "+017", "zzzz", "00g7", "00", ""}
LengthRequests ==
    { SentRecord("length", "git-upload-pack", "/r", None, <<>>, f,
                 IF Len(f) = 4 THEN EncodeRequest("git-upload-pack", "/r", None, <<>>) ELSE "") :
        f \in LenFields }

\* Payloads that break the grammar, framed with their true length.
MalformedPayloads ==
    { "git-upload-pack /r",
      "git-upload-pack" \o NUL,
      "git-upload-pack /r x" \o NUL,
      "git-upload-pack /r" \o NUL \o "junk",
      "git-upload-pack /r" \o NUL \o "host=h" \o NUL \o "junk",
      "git-upload-pack /r" \o NUL \o "host=h" \o NUL \o NUL \o "version=2",
      "git-upload-pack /r" \o NUL \o "host=h" \o NUL \o "x" \o NUL \o "version=2" \o NUL }
MalformedRequests ==
    { SentRecord("malformed", "", "", None, <<>>, Hex04(Len(p) + 4), p) : p \in MalformedPayloads }

\* A request of exactly four parts, which the parser accepts: a host, the
\* separator, and no extra parameter after it.
FourPartRequests ==
    { SentRecord("grammar", c, "/r", Some("host=h"), <<>>,
                 Hex04(Len(c \o " /r" \o NUL \o "host=h" \o NUL \o NUL) + 4),
                 c \o " /r" \o NUL \o "host=h" \o NUL \o NUL) : c \in NativeCommands }

\* What a client may send on after its request without waiting for an
\* answer: the first bytes of its side of the conversation.
FollowingBytes == {"w", "wd"}
FollowedRequests ==
    { [SentRecord("grammar", c, "/r", h, e,
                  Hex04(Len(EncodeRequest(c, "/r", h, e)) + 4), EncodeRequest(c, "/r", h, e))
        EXCEPT !.after = a] :
        c \in NativeCommands, h \in {None, Some("host=h")}, e \in {<<>>},
        a \in FollowingBytes }

NativeRequests ==
    WellFormedRequests \cup FourPartRequests \cup LengthRequests \cup MalformedRequests
    \cup FollowedRequests

\* What the server process may have in its environment.
Environments ==
    { [k \in {"PATH"} |-> "/bin"],
      [k \in {"PATH", "GIT_PROTOCOL"} |-> IF k = "PATH" THEN "/bin" ELSE "version=0"] }

\* ======================================================== Smart HTTP ======
\* HTTPRequest.parse_query_string and from_query(key): the first value of
\* the key (None if absent); a part without "=" raises ValueError.
QueryParts(query_string) == IF query_string = "" THEN <<>> ELSE Split(query_string, "&")
QueryOk(query_string) ==
    \A i \in DOMAIN QueryParts(query_string) :
        Len(SplitMax(QueryParts(query_string)[i], "=", 1)) = 2
RECURSIVE FirstValue(_, _)
FirstValue(parts, key) ==
    IF parts = <<>> THEN None
    ELSE LET kv == SplitMax(Head(parts), "=", 1)
         IN  IF kv[1] = key THEN Some(kv[2]) ELSE FirstValue(Tail(parts), key)
from_query(query_string, key) == FirstValue(QueryParts(query_string), key)

\* from_wsgi_environ, lines 73-75: CONTENT_LENGTH absent or empty leaves
\* content_length None; otherwise int() of it, which may raise.
ContentLength(header) ==
    IF header = None \/ header = Some("") THEN [ok |-> TRUE, value |-> None]
    ELSE LET n == PyInt(header[1], 10)
         IN  [ok |-> n.ok, value |-> IF n.ok THEN Some(n.val) ELSE None]

\* The response classes: each with the class attributes it has.  The
\* subclasses set status_code and reason; "code" is HTTPResponse's alone.
ResponseClass(name) ==
    CASE name = "HTTPResponse" -> [code |-> 200, reason |-> "OK", status_code |-> None]
      [] name = "HTTPForbidden" -> [code |-> 200, reason |-> "Forbidden", status_code |-> Some(403)]
      [] name = "HTTPMethodNotAllowed" ->
            [code |-> 200, reason |-> "Method Not Allowed", status_code |-> Some(405)]

\* HTTPResponse.__init__ with no status_code argument (every call in the
\* program): "status_code or self.code", then the status line.
ResponseStatusCode(name, status_code) ==
    IF status_code # None /\ status_code # Some(0) THEN status_code[1] ELSE ResponseClass(name).code
ResponseStatus(name) ==
    PyStr(ResponseStatusCode(name, None)) \o " " \o ResponseClass(name).reason

\* The headers __call__ adds to every response (lines 363-365).
NoCacheHeaders ==
    [k \in {"Expires", "Pragma", "Cache-Control"} |->
        CASE k = "Expires" -> "Fri, 01 Jan 1980 00:00:00 GMT"
          [] k = "Pragma" -> "no-cache"
          [] k = "Cache-Control" -> "no-cache, max-age=0, must-revalidate"]

\* A response as handed to start_response: its class, status line and
\* headers; content_type None adds no Content-Type header.
Response(name, content_type) ==
    [class |-> name, status |-> ResponseStatus(name),
     headers |-> IF content_type = None THEN NoCacheHeaders
                 ELSE DictUpdate([k \in {"Content-Type"} |-> content_type[1]], NoCacheHeaders)]

\* GitApplication.commands and valid_accepts.
commands == {"git-upload-pack", "git-receive-pack"}
valid_accepts == {"application/x-" \o c \o "-result" : c \in commands}

\* inforefs, lines 273-276: the announcement put before the tool's output.
smart_server_advert(service) == "# service=git-" \o service \o "\n0000"
\* A variant of the length prefix that counts its own four bytes as well.
start_value_counting_prefix(service) ==
    Hex04(Len(smart_server_advert(service)) + 4) \o smart_server_advert(service)
start_value(service) == Hex04(Len(smart_server_advert(service))) \o smart_server_advert(service)

\* __call__, lines 347-351: the repository path of a request path; the path
\* must split into three parts or the unpacking raises ValueError.
PathSplit(path_info) == SplitMax(path_info, "/", 2)
HttpRepoName(path_info) ==
    LET repo_name == PathSplit(path_info)[2]
    IN  IF EndsWith(repo_name, ".git") THEN DropLast(repo_name, Len(".git")) ELSE repo_name
HttpRepoPath(path_info) == Resolve(PathJoin(repo_root, HttpRepoName(path_info)))

\* What __call__ decides for a request: the response, the process spawned
\* (None if none), the input stream given to write_stdin ("none" if no
\* inbound worker runs), and whether the response starts with an
\* announcement.  An exception (raised) leaves no response.
CallOutcome(resp, proc, stream, limit, gz, first, exc) ==
    [resp |-> resp, popen |-> proc, stream |-> stream, limit |-> limit, gzip |-> gz,
     first |-> first, raised |-> exc]
CallRaises == CallOutcome(None, None, "none", None, FALSE, None, TRUE)
CallRejects(name) == CallOutcome(Some(Response(name, None)), None, "none", None, FALSE, None, FALSE)

\* GitApplication.inforefs.
inforefs(req, repo_path) ==
    LET git_command == from_query(req.query_string, "service")
    IN  IF git_command = None \/ git_command[1] \notin commands
        THEN CallRejects("HTTPMethodNotAllowed")
        ELSE LET service == Drop(git_command[1], Len("git-"))
             IN  CallOutcome(
                    Some(Response("HTTPResponse",
                                  Some("application/x-" \o git_command[1] \o "-advertisement"))),
                    Some([args |-> <<"git", service, "--stateless-rpc", "--advertise-refs",
                                     PathStr(repo_path)>>,
                          env |-> None, stdin |-> "inherit", stdout |-> "pipe", stderr |-> "pipe"]),
                    "none", None, FALSE, Some(start_value(service)), FALSE)

\* Whether backend wraps the request stream in a LimitedFile (line 309).
UsesLimitedFile(content_length) == content_length # None /\ content_length # Some(0)

\* GitApplication.backend.
backend(req, repo_path, content_length) ==
    LET git_command == RSplitLast(req.path_info, "/")
        service == Drop(git_command, Len("git-"))
    IN  IF git_command \notin commands THEN CallRejects("HTTPMethodNotAllowed")
        ELSE CallOutcome(
                Some(Response("HTTPResponse", Some("application/x-" \o service \o "-result"))),
                Some([args |-> <<"git", service, "--stateless-rpc", PathStr(repo_path)>>,
                      env |-> None, stdin |-> "pipe", stdout |-> "pipe", stderr |-> "pipe"]),
                IF UsesLimitedFile(content_length) THEN "limited" ELSE "raw",
                IF UsesLimitedFile(content_length) THEN content_length ELSE None,
                req.content_encoding = Some("gzip"),
                None, FALSE)

\* GitApplication.__call__ up to start_response.
call(req) ==
    LET length == ContentLength(req.content_length)
    IN  IF ~QueryOk(req.query_string) \/ ~length.ok \/ Len(PathSplit(req.path_info)) # 3
        THEN CallRaises
        ELSE LET remainder == PathSplit(req.path_info)[3]
                 repo_path == HttpRepoPath(req.path_info)
             IN  IF remainder = "info/refs" THEN inforefs(req, repo_path)
                 ELSE IF req.accept # None /\ req.accept[1] \in valid_accepts
                 THEN backend(req, repo_path, length.value)
                 ELSE CallRejects("HTTPForbidden")

VARIABLES
    request,       \* the HTTP request (a record)
    resp,          \* the response handed to start_response (None before)
    http_raised,   \* an exception left __call__
    hpc,           \* "call" before __call__ ran, "called" after
    offered,       \* every byte the transport offers, from the start
    net,           \* the bytes the transport (wsgi.input) still offers
    net_eof,       \* the client closes its sending side after those bytes
    short_reads,   \* the transport may return fewer bytes than asked for
    stream_kind,   \* write_stdin's input: "none", "raw" or "limited"
    gzip,          \* the input is wrapped in a GzipFile
    remain,        \* LimitedFile.remain
    zbuf,          \* GzipFile: bytes decompressed and not yet returned
    zeof,          \* GzipFile: its input reported end of data
    inbuf,         \* iochunker_copy: the chunk being written to dst
    wpc,           \* the inbound worker: "none", "read", "write", "done", "failed"
    stdin_pipe,    \* the bytes in the pipe to the tool's standard input
    stdin_closed,  \* popen.stdin was closed
    stdin_written, \* every byte written to popen.stdin so far
    tpc,           \* the tool: "none", "reading", "writing", "exited"
    tool_out,      \* the bytes the tool has still to write to stdout
    tool_err,      \* the bytes the tool has still to write to stderr
    tool_wrote,    \* every byte the tool wrote to stdout so far
    stdout_pipe, stdout_closed,
    stderr_pipe, stderr_closed,
    out_buf,       \* popen.stdout.read(): the bytes gathered for one chunk
    yielded,       \* the chunks the response iterator has yielded
    opc,           \* the iterator: "none", "single", "first", "read", "wait", "stopped"
    error_msg,     \* __next__'s local error_msg: the stderr text logged (None if none)
    err_buf,       \* popen.stderr.read(): the bytes gathered for one chunk
    stderr_queue,  \* PopenIterWrapper._stderr_queue
    epc            \* the stderr worker: "none", "read", "done"

sharedVars == <<proto, os_environ, popen>>
callVars == <<request, resp, http_raised, hpc, offered, short_reads, net_eof, stream_kind, gzip>>
inVars == <<net, remain, zbuf, zeof, inbuf, wpc>>
stdinVars == <<stdin_pipe, stdin_closed, stdin_written>>
toolVars == <<tpc, tool_out, tool_err, tool_wrote>>
pipeVars == <<stdout_pipe, stdout_closed, stderr_pipe, stderr_closed>>
outVars == <<out_buf, yielded, opc, error_msg>>
errVars == <<err_buf, stderr_queue, epc>>
httpVars == <<callVars, inVars, stdinVars, toolVars, pipeVars, outVars, errVars>>
vars == <<sharedVars, nativeVars, httpVars>>

\* ------------------------------------------------------ the HTTP requests
HttpRequest(method, path_info, query_string, accept, content_length, content_encoding) ==
    [method |-> method, path_info |-> path_info, query_string |-> query_string,
     accept |-> accept, content_length |-> content_length,
     content_encoding |-> content_encoding]

HttpPaths ==
    { "/r/info/refs", "/r.git/info/refs", "/x/info/refs", "/../info/refs",
      "/r/git-upload-pack", "/r.git/git-receive-pack", "/../git-upload-pack",
      "/r/a/git-upload-pack", "/r/foo", "/r", "/r.git.git/info/refs" }
HttpQueries ==
    { "", "service=git-upload-pack", "service=git-receive-pack", "service=foo",
      "a=b&service=git-upload-pack", "service" }
HttpAccepts ==
    { None, Some("text/html"), Some("application/x-git-upload-pack-result"),
      Some("application/x-git-receive-pack-result") }

\* Requests with no body, of every path, query and Accept.
DispatchRequests ==
    { [req |-> HttpRequest(IF q = "" THEN "POST" ELSE "GET", p, q, a, None, None),
       net |-> "", eof |-> TRUE, short |-> FALSE] :
        p \in HttpPaths, q \in HttpQueries, a \in HttpAccepts }

\* A backend POST: every declared length, more and fewer bytes offered than
\* declared, with and without the end of the stream.
Bodies == { Take("abcdefgh", n) : n \in 0..(MaxBody + 1) }
LengthHeaders == {None, Some(""), Some("x")} \cup { Some(PyStr(n)) : n \in 0..MaxBody }
PumpRequests ==
    { [req |-> HttpRequest("POST", "/r/git-upload-pack", "",
                           Some("application/x-git-upload-pack-result"), l, None),
       net |-> b, eof |-> e, short |-> s] :
        l \in LengthHeaders, b \in Bodies, e \in BOOLEAN, s \in BOOLEAN }

\* A backend POST with a compressed body.
GzipBodies == {"Z", "aZ", "Zb"}
GzipRequests ==
    { [req |-> HttpRequest("POST", "/r/git-upload-pack", "",
                           Some("application/x-git-upload-pack-result"), l, Some("gzip")),
       net |-> b, eof |-> TRUE, short |-> FALSE] :
        l \in {None, Some("1"), Some("2")}, b \in GzipBodies }

HttpRequests == DispatchRequests \cup PumpRequests \cup GzipRequests

\* What a tool may print: its advertisement (for info/refs) and stderr text.
ToolOutputs == {"", "r", "refs"}
ToolErrors == {"", "E"}

\* The decompressor, standing in for gzip: each compressed byte stands for
\* one or more bytes ("Z" for a run of two), so that output may be longer
\* than input.
RECURSIVE Inflate(_)
Inflate(z) ==
    IF z = "" THEN ""
    ELSE (IF Char(z, 1) = "Z" THEN "zz" ELSE Char(z, 1)) \o Inflate(Drop(z, 1))

NoRequest == HttpRequest("", "", "", None, None, None)
NotSent == SentRecord("none", "", "", None, <<>>, "", "")

HttpIdle ==
    /\ resp = None /\ http_raised = FALSE
    /\ stream_kind = "none" /\ gzip = FALSE /\ remain = 0 /\ zbuf = "" /\ zeof = FALSE
    /\ inbuf = "" /\ wpc = "none"
    /\ stdin_pipe = "" /\ stdin_closed = FALSE /\ stdin_written = ""
    /\ tpc = "none" /\ tool_out = "" /\ tool_err = "" /\ tool_wrote = ""
    /\ stdout_pipe = "" /\ stdout_closed = FALSE /\ stderr_pipe = "" /\ stderr_closed = FALSE
    /\ out_buf = "" /\ yielded = <<>> /\ opc = "none" /\ error_msg = None
    /\ err_buf = "" /\ stderr_queue = <<>> /\ epc = "none"

NativeIdle ==
    /\ wfile = "" /\ reads = <<>> /\ git_request = None /\ version = None
    /\ returncode = None /\ raised = FALSE /\ tool_stdin = ""
    /\ rbuf = "" /\ request_data = None

InitNative ==
    /\ proto = "git"
    /\ os_environ \in Environments
    /\ sent \in NativeRequests
    /\ rfile = sent.lenField \o sent.payload \o sent.after
    /\ npc = "parse"
    /\ request = NoRequest /\ hpc = "called"
    /\ offered = "" /\ net = "" /\ net_eof = TRUE /\ short_reads = FALSE

InitHttp ==
    /\ proto = "http"
    /\ os_environ = [k \in {"PATH"} |-> "/bin"]
    /\ \E r \in HttpRequests :
        /\ request = r.req
        /\ offered = r.net /\ net = r.net /\ net_eof = r.eof /\ short_reads = r.short
    /\ hpc = "call"
    /\ sent = NotSent /\ rfile = "" /\ npc = "done"

Init ==
    /\ popen = None
    /\ NativeIdle /\ HttpIdle
    /\ (InitNative \/ InitHttp)

\* ------------------------------------------------------- native: actions
\* _handle, line 78: parse_init_data runs.  self.rfile is a buffered reader
\* (StreamRequestHandler.rbufsize, unchanged by the class at line 37): to
\* serve a read it takes from the socket whatever has arrived, which may be
\* more than the parser asked for; the surplus stays in its buffer.
ParseInitData ==
    /\ proto = "git" /\ npc = "parse"
    /\ LET o == parse_init_data(rfile)
       IN  /\ \E k \in 0..Len(o.rest) :
                /\ rbuf' = Take(o.rest, k)
                /\ rfile' = Drop(o.rest, k)
           /\ request_data' = ReadPacket(rfile).data
           /\ wfile' = wfile \o o.reply
           /\ reads' = reads \o o.reads
           /\ git_request' = o.request
           /\ raised' = o.raised
           /\ npc' = IF o.request = None THEN "done" ELSE "handle"
    /\ UNCHANGED <<sharedVars, sent, version, returncode, tool_stdin, httpVars>>

\* _handle, lines 81-112: the command and the repository are checked, the
\* version is found and the tool is spawned on the connection.
HandleRequest ==
    /\ proto = "git" /\ npc = "handle"
    /\ LET o == HandleOutcome(git_request[1], os_environ)
       IN  /\ wfile' = wfile \o o.reply
           /\ raised' = o.raised
           /\ version' = o.version
           /\ popen' = o.popen
           /\ npc' = IF o.popen = None THEN "done" ELSE "wait"
    /\ UNCHANGED <<proto, os_environ, sent, rfile, rbuf, request_data, reads, git_request,
                   returncode, tool_stdin, httpVars>>

\* What the tool may write to the connection before it exits.
NativeToolOutputs == {"", "PACK"}

\* The tool, on the connection itself (lines 105-110: its stdin and stdout
\* are the socket of self.rfile and self.wfile): it reads what the socket
\* still holds, answers, and exits with some status.
NativeToolExit(rc) ==
    /\ proto = "git" /\ npc = "wait" /\ returncode = None
    /\ tool_stdin' = tool_stdin \o rfile
    /\ rfile' = ""
    /\ \E out \in NativeToolOutputs :
        /\ wfile' = wfile \o out
        /\ tool_wrote' = out
    /\ returncode' = Some(rc)
    /\ UNCHANGED <<sharedVars, sent, rbuf, request_data, reads, git_request, version, raised, npc,
                   callVars, inVars, stdinVars, tpc, tool_out, tool_err, pipeVars, outVars,
                   errVars>>

\* A variant of the reply to the exit status that never reports it.
ExecuteErrorReplyNever(rc) == ""

\* Lines 114-116: what the server writes once it has the exit status.
ExecuteErrorReply(rc) == IF rc # 0 THEN exit_session("Execute error. \n") ELSE ""

\* _handle, lines 113-116: popen.wait() returns.
WaitReturn ==
    /\ proto = "git" /\ npc = "wait" /\ returncode # None
    /\ wfile' = wfile \o ExecuteErrorReply(returncode[1])
    /\ npc' = "done"
    /\ UNCHANGED <<sharedVars, sent, rfile, rbuf, request_data, reads, git_request, version,
                   returncode, raised, tool_stdin, httpVars>>

\* --------------------------------------------------------- HTTP: __call__
\* GitApplication.__call__: the response is built and handed to
\* start_response; backend and inforefs spawn the tool and start the
\* workers.  The tool's texts are the tool's choice.
HttpCall(out, err) ==
    /\ proto = "http" /\ hpc = "call"
    /\ LET o == call(request)
           spawned == o.popen # None
       IN  /\ resp' = o.resp
           /\ http_raised' = o.raised
           /\ popen' = o.popen
           /\ stream_kind' = o.stream
           /\ gzip' = o.gzip
           /\ remain' = IF o.limit = None THEN 0 ELSE o.limit[1]
           /\ wpc' = IF o.stream = "none" THEN "none" ELSE "read"
           /\ tpc' = IF ~spawned THEN "none"
                     ELSE IF o.popen[1].stdin = "pipe" THEN "reading" ELSE "writing"
           /\ tool_out' = IF spawned /\ o.popen[1].stdin # "pipe" THEN out ELSE ""
           /\ tool_err' = IF spawned THEN err ELSE ""
           /\ epc' = IF spawned THEN "read" ELSE "none"
           /\ opc' = IF o.raised THEN "none"
                     ELSE IF ~spawned THEN "single"
                     ELSE IF o.first # None THEN "first" ELSE "read"
    /\ hpc' = "called"
    /\ UNCHANGED <<proto, os_environ, nativeVars, request, offered, short_reads, net_eof,
                   net, zbuf, zeof, inbuf, stdinVars, tool_wrote, pipeVars,
                   out_buf, yielded, error_msg, err_buf, stderr_queue>>

\* ----------------------------------------------------- the inbound worker
\* fd.read(size) on the transport: the data it may return.  No data and no
\* end of stream: the read blocks (no outcome).
RawReads(size) ==
    IF net = "" THEN (IF net_eof THEN {""} ELSE {})
    ELSE IF short_reads THEN { Take(net, k) : k \in 1..Min(size, Len(net)) }
    ELSE IF Len(net) >= size \/ net_eof THEN { Take(net, size) }
    ELSE {}

\* LimitedFile.read(size): the data returned and the new value of remain.
LimitedReads(size) ==
    IF size <= remain THEN { [data |-> d, remain |-> remain - size] : d \in RawReads(size) }
    ELSE IF remain # 0 THEN { [data |-> d, remain |-> 0] : d \in RawReads(remain) }
    ELSE { [data |-> "", remain |-> remain] }

\* inputstream.read(size) below any GzipFile: the LimitedFile or the
\* transport itself.
StreamReads(size) ==
    IF stream_kind = "limited" THEN LimitedReads(size)
    ELSE { [data |-> d, remain |-> remain] : d \in RawReads(size) }

\* A variant of the loop's test that takes a short read for the end.
CopyEndsOnShortRead(b) == Len(b) < POPEN_READ_SIZE

\* iochunker_copy, lines 203-204: an empty read, and only that, ends the
\* copy.
CopyEnds(b) == b = ""

\* iochunker_copy, lines 202-205, on a plain stream: one read; an empty
\* read ends the loop and write_stdin closes popen.stdin (line 252).
InboundRead ==
    /\ wpc = "read" /\ ~gzip
    /\ \E r \in StreamReads(POPEN_READ_SIZE) :
        /\ net' = Drop(net, Len(r.data))
        /\ remain' = r.remain
        /\ inbuf' = r.data
        /\ wpc' = IF CopyEnds(r.data) THEN "done" ELSE "write"
        /\ stdin_closed' = CopyEnds(r.data)
    /\ UNCHANGED <<sharedVars, nativeVars, callVars, zbuf, zeof, stdin_pipe, stdin_written,
                   toolVars, pipeVars, outVars, errVars>>

\* write_stdin, lines 250-254: the read raises (socket.error below a
\* LimitedFile, lines 165-166; any error of the transport or the
\* decompressor): the bare except logs it, and popen.stdin.close(), which
\* comes after the copy inside the try, is not reached.
InboundFail ==
    /\ wpc = "read"
    /\ wpc' = "failed"
    /\ UNCHANGED <<sharedVars, nativeVars, callVars, net, remain, zbuf, zeof, inbuf,
                   stdinVars, toolVars, pipeVars, outVars, errVars>>

\* GzipFile.read: one read of compressed input, decompressed into zbuf.
GzipFill ==
    /\ wpc = "read" /\ gzip /\ ~zeof /\ Len(zbuf) < POPEN_READ_SIZE
    /\ \E r \in StreamReads(GZIP_READ_SIZE) :
        /\ net' = Drop(net, Len(r.data))
        /\ remain' = r.remain
        /\ zbuf' = zbuf \o Inflate(r.data)
        /\ zeof' = (r.data = "")
    /\ UNCHANGED <<sharedVars, nativeVars, callVars, inbuf, wpc, stdinVars,
                   toolVars, pipeVars, outVars, errVars>>

\* iochunker_copy on a GzipFile: read(chunk_size) returns once the chunk is
\* full or the input has ended.
InboundReadGzip ==
    /\ wpc = "read" /\ gzip /\ (zeof \/ Len(zbuf) >= POPEN_READ_SIZE)
    /\ inbuf' = Take(zbuf, POPEN_READ_SIZE)
    /\ zbuf' = Drop(zbuf, POPEN_READ_SIZE)
    /\ wpc' = IF CopyEnds(Take(zbuf, POPEN_READ_SIZE)) THEN "done" ELSE "write"
    /\ stdin_closed' = CopyEnds(Take(zbuf, POPEN_READ_SIZE))
    /\ UNCHANGED <<sharedVars, nativeVars, callVars, net, remain, zeof, stdin_pipe,
                   stdin_written, toolVars, pipeVars, outVars, errVars>>

\* A variant of the write that gives up what the pipe has no room for.
InboundWriteTruncating ==
    /\ wpc = "write" /\ Len(stdin_pipe) < PipeCap
    /\ LET k == Min(PipeCap - Len(stdin_pipe), Len(inbuf))
       IN  /\ stdin_pipe' = stdin_pipe \o Take(inbuf, k)
           /\ stdin_written' = stdin_written \o Take(inbuf, k)
           /\ inbuf' = ""
           /\ wpc' = "read"
    /\ UNCHANGED <<sharedVars, nativeVars, callVars, net, remain, zbuf, zeof, stdin_closed,
                   toolVars, pipeVars, outVars, errVars>>

\* iochunker_copy, line 206: dst.write(b) blocks until the pipe took all of
\* b; the pipe takes what it has room for.
InboundWrite ==
    /\ wpc = "write" /\ Len(stdin_pipe) < PipeCap
    /\ LET k == Min(PipeCap - Len(stdin_pipe), Len(inbuf))
       IN  /\ stdin_pipe' = stdin_pipe \o Take(inbuf, k)
           /\ stdin_written' = stdin_written \o Take(inbuf, k)
           /\ inbuf' = Drop(inbuf, k)
           /\ wpc' = IF Drop(inbuf, k) = "" THEN "read" ELSE "write"
    /\ UNCHANGED <<sharedVars, nativeVars, callVars, net, remain, zbuf, zeof, stdin_closed,
                   toolVars, pipeVars, outVars, errVars>>

\* ---------------------------------------------------- the tool (on pipes)
nativeRest == <<sent, rfile, rbuf, request_data, wfile, reads, git_request, version, raised, npc>>

\* The tool reads what its standard input holds.
ToolRead ==
    /\ tpc = "reading" /\ stdin_pipe # ""
    /\ tool_stdin' = tool_stdin \o stdin_pipe
    /\ stdin_pipe' = ""
    /\ UNCHANGED <<sharedVars, nativeRest, returncode, callVars, inVars, stdin_closed,
                   stdin_written, toolVars, pipeVars, outVars, errVars>>

\* The tool sees the end of its input and turns to answering: it echoes
\* what it read.
ToolSeesEof ==
    /\ tpc = "reading" /\ stdin_pipe = "" /\ stdin_closed
    /\ tpc' = "writing"
    /\ tool_out' = tool_stdin
    /\ UNCHANGED <<sharedVars, nativeVars, callVars, inVars, stdinVars, tool_err, tool_wrote,
                   pipeVars, outVars, errVars>>

\* The tool writes to its standard output what the pipe has room for.
ToolWriteStdout ==
    /\ tpc = "writing" /\ tool_out # "" /\ Len(stdout_pipe) < PipeCap
    /\ LET k == Min(PipeCap - Len(stdout_pipe), Len(tool_out))
       IN  /\ stdout_pipe' = stdout_pipe \o Take(tool_out, k)
           /\ tool_wrote' = tool_wrote \o Take(tool_out, k)
           /\ tool_out' = Drop(tool_out, k)
    /\ UNCHANGED <<sharedVars, nativeVars, callVars, inVars, stdinVars, tpc, tool_err,
                   stdout_closed, stderr_pipe, stderr_closed, outVars, errVars>>

\* The tool writes to its standard error what the pipe has room for.
ToolWriteStderr ==
    /\ tpc = "writing" /\ tool_err # "" /\ Len(stderr_pipe) < PipeCap
    /\ LET k == Min(PipeCap - Len(stderr_pipe), Len(tool_err))
       IN  /\ stderr_pipe' = stderr_pipe \o Take(tool_err, k)
           /\ tool_err' = Drop(tool_err, k)
    /\ UNCHANGED <<sharedVars, nativeVars, callVars, inVars, stdinVars, tpc, tool_out,
                   tool_wrote, stdout_pipe, stdout_closed, stderr_closed, outVars, errVars>>

\* The tool has written everything and exits: its pipes close.
ToolExit(rc) ==
    /\ tpc = "writing" /\ tool_out = "" /\ tool_err = ""
    /\ tpc' = "exited"
    /\ stdout_closed' = TRUE
    /\ stderr_closed' = TRUE
    /\ returncode' = Some(rc)
    /\ UNCHANGED <<sharedVars, nativeRest, tool_stdin, callVars, inVars, stdinVars,
                   tool_out, tool_err, tool_wrote, stdout_pipe, stderr_pipe, outVars, errVars>>

\* --------------------------------------------------- the response iterator
\* HTTPResponse.__iter__/__next__ with neither body nor data_iter: the one
\* empty chunk of iter((b"",)).
YieldEmpty ==
    /\ opc = "single"
    /\ yielded' = Append(yielded, "")
    /\ opc' = "stopped"
    /\ UNCHANGED <<sharedVars, nativeVars, callVars, inVars, stdinVars, toolVars, pipeVars,
                   out_buf, error_msg, errVars>>

\* inforefs, line 289: the chain yields start_value first.  The process
\* argument names the service.
YieldStartValue ==
    /\ opc = "first"
    /\ yielded' = Append(yielded, start_value(popen[1].args[2]))
    /\ opc' = "read"
    /\ UNCHANGED <<sharedVars, nativeVars, callVars, inVars, stdinVars, toolVars, pipeVars,
                   out_buf, error_msg, errVars>>

\* PopenIterWrapper.__next__, line 235: popen.stdout.read gathers bytes
\* from the pipe until the chunk is full or the pipe is at its end.
StdoutFill ==
    /\ opc = "read" /\ stdout_pipe # "" /\ Len(out_buf) < POPEN_READ_SIZE
    /\ LET k == Min(POPEN_READ_SIZE - Len(out_buf), Len(stdout_pipe))
       IN  /\ out_buf' = out_buf \o Take(stdout_pipe, k)
           /\ stdout_pipe' = Drop(stdout_pipe, k)
    /\ UNCHANGED <<sharedVars, nativeVars, callVars, inVars, stdinVars, toolVars,
                   stdout_closed, stderr_pipe, stderr_closed, yielded, opc, error_msg,
                   errVars>>

\* A variant of __next__ that takes a chunk shorter than asked for as the
\* end of the stream.
NextChunkEndsOnShort(data) ==
    IF Len(data) = POPEN_READ_SIZE THEN [yield |-> <<data>>, opc |-> "read"]
    ELSE [yield |-> <<>>, opc |-> "wait"]

\* The chunks __next__ returns and the position it leaves the iterator in.
NextChunk(data) ==
    IF data # "" THEN [yield |-> <<data>>, opc |-> "read"]
    ELSE [yield |-> <<>>, opc |-> "wait"]

\* __next__, lines 235-237: the read returns; a chunk with data is yielded,
\* an empty one leads to popen.wait().
StdoutReturn ==
    /\ opc = "read"
    /\ Len(out_buf) = POPEN_READ_SIZE \/ (stdout_pipe = "" /\ stdout_closed)
    /\ yielded' = yielded \o NextChunk(out_buf).yield
    /\ opc' = NextChunk(out_buf).opc
    /\ out_buf' = ""
    /\ UNCHANGED <<sharedVars, nativeVars, callVars, inVars, stdinVars, toolVars, pipeVars,
                   error_msg, errVars>>

\* __next__, lines 240-245: wait() returns once the tool has exited; on a
\* status other than zero the queue of the stderr worker is joined, as it
\* is at that moment, into the text that is logged; StopIteration ends the
\* sequence whatever the status.
WaitAndStop ==
    /\ opc = "wait" /\ returncode # None
    /\ opc' = "stopped"
    /\ error_msg' = IF returncode[1] # 0 THEN Some(Concat(stderr_queue)) ELSE None
    /\ UNCHANGED <<sharedVars, nativeVars, callVars, inVars, stdinVars, toolVars, pipeVars,
                   out_buf, yielded, errVars>>

\* ------------------------------------------------------ the stderr worker
\* _read_stderr, line 222: popen.stderr.read gathers bytes from the pipe.
StderrFill ==
    /\ epc = "read" /\ stderr_pipe # "" /\ Len(err_buf) < POPEN_READ_SIZE
    /\ LET k == Min(POPEN_READ_SIZE - Len(err_buf), Len(stderr_pipe))
       IN  /\ err_buf' = err_buf \o Take(stderr_pipe, k)
           /\ stderr_pipe' = Drop(stderr_pipe, k)
    /\ UNCHANGED <<sharedVars, nativeVars, callVars, inVars, stdinVars, toolVars,
                   stdout_pipe, stdout_closed, stderr_closed, outVars, stderr_queue, epc>>

\* _read_stderr, lines 226-229: the chunk read is appended, and an empty
\* one ends the worker.
StderrReturn ==
    /\ epc = "read"
    /\ Len(err_buf) = POPEN_READ_SIZE \/ (stderr_pipe = "" /\ stderr_closed)
    /\ stderr_queue' = Append(stderr_queue, err_buf)
    /\ epc' = IF err_buf = "" THEN "done" ELSE "read"
    /\ err_buf' = ""
    /\ UNCHANGED <<sharedVars, nativeVars, callVars, inVars, stdinVars, toolVars, pipeVars,
                   outVars>>

\* ------------------------------------------------------- specifications
Inbound == InboundRead \/ GzipFill \/ InboundReadGzip \/ InboundWrite \/ InboundFail
Tool == ToolRead \/ ToolSeesEof \/ ToolWriteStdout \/ ToolWriteStderr \/ (\E rc \in {0, 1} : ToolExit(rc))
Outbound == YieldEmpty \/ YieldStartValue \/ StdoutFill \/ StdoutReturn \/ WaitAndStop
StderrDrain == StderrFill \/ StderrReturn

Next ==
    \/ ParseInitData
    \/ HandleRequest
    \/ \E rc \in {0, 1} : NativeToolExit(rc)
    \/ WaitReturn
    \/ \E out \in ToolOutputs, err \in ToolErrors : HttpCall(out, err)
    \/ Inbound
    \/ Tool
    \/ Outbound
    \/ StderrDrain

Spec == Init /\ [][Next]_vars

\* ------------------------------------------- a packet framed and read back
\* s repeated n times.
RECURSIVE Repeat(_, _)
Repeat(s, n) ==
    IF n = 0 THEN ""
    ELSE LET h == Repeat(s, n \div 2)
         IN  h \o h \o (IF n % 2 = 1 THEN s ELSE "")

\* Strings of exactly n characters over the given characters.
RECURSIVE StringsOfLen(_, _)
StringsOfLen(chars, n) ==
    IF n = 0 THEN {""}
    ELSE { c \o s : c \in chars, s \in StringsOfLen(chars, n - 1) }

\* The payloads framed: every short one, and long ones around the greatest
\* length the reader accepts and around the greatest four hex digits hold.
Payloads ==
    (UNION { StringsOfLen({"a", "0", NUL}, n) : n \in 0..MaxPayload })
    \cup { Repeat("a", n) : n \in { pkt_line_maxlength - 5, pkt_line_maxlength - 4,
                                    pkt_line_maxlength - 3,
                                    16 * 16 * 16 * 16 - 5, 16 * 16 * 16 * 16 - 4 } }

InitPacket ==
    /\ popen = None
    /\ NativeIdle /\ HttpIdle
    /\ proto = "pkt"
    /\ os_environ = [k \in {"PATH"} |-> "/bin"]
    /\ \E P \in Payloads : sent = [NotSent EXCEPT !.kind = "payload", !.payload = P]
    /\ rfile = "" /\ npc = "encode"
    /\ request = NoRequest /\ hpc = "called"
    /\ offered = "" /\ net = "" /\ net_eof = TRUE /\ short_reads = FALSE

\* pkt_line frames the payload; the packet is put on a stream.
EncodePacket ==
    /\ proto = "pkt" /\ npc = "encode"
    /\ rfile' = pkt_line(sent.payload)
    /\ npc' = "decode"
    /\ UNCHANGED <<sharedVars, sent, rbuf, request_data, wfile, reads, git_request, version,
                   returncode, raised, tool_stdin, httpVars>>

\* parse_init_data, lines 137-145, reads the packet from the stream.
DecodePacket ==
    /\ proto = "pkt" /\ npc = "decode"
    /\ LET p == ReadPacket(rfile)
       IN  /\ reads' = p.reads
           /\ request_data' = p.data
           /\ rfile' = p.rest
           /\ raised' = (p.status = "raise")
           /\ wfile' = IF p.status = "invalid" THEN exit_session("Invalid request data\n")
                                             ELSE wfile
    /\ npc' = "done"
    /\ UNCHANGED <<sharedVars, sent, rbuf, git_request, version, returncode, tool_stdin,
                   httpVars>>

NextPacket == EncodePacket \/ DecodePacket
PacketSpec == InitPacket /\ [][NextPacket]_vars

\* The backend request on its own: a POST to a backend path with a valid
\* Accept and a body, plain or compressed, its three workers and the tool;
\* no read fails.
InitBackend ==
    /\ popen = None
    /\ NativeIdle /\ HttpIdle
    /\ proto = "http"
    /\ os_environ = [k \in {"PATH"} |-> "/bin"]
    /\ \E r \in PumpRequests \cup GzipRequests :
        /\ request = r.req
        /\ offered = r.net /\ net = r.net /\ net_eof = r.eof /\ short_reads = r.short
    /\ hpc = "call"
    /\ sent = NotSent /\ rfile = "" /\ npc = "done"

BackendCall == \E err \in ToolErrors : HttpCall("", err)
BackendInbound == InboundRead \/ GzipFill \/ InboundReadGzip \/ InboundWrite
BackendOutbound == StdoutFill \/ StdoutReturn \/ WaitAndStop

NextBackend ==
    \/ BackendCall
    \/ BackendInbound
    \/ Tool
    \/ BackendOutbound
    \/ StderrDrain

\* Every worker is a thread of its own and the tool a process of its own:
\* each runs when it can.
Fairness ==
    /\ WF_vars(BackendInbound)
    /\ WF_vars(Tool)
    /\ WF_vars(BackendOutbound)
    /\ WF_vars(StderrDrain)

LiveSpec == InitBackend /\ [][NextBackend]_vars /\ Fairness

\* The backend request where a read of the inbound worker may fail.
NextBackendFailing ==
    \/ NextBackend
    \/ InboundFail
FailSpec == InitBackend /\ [][NextBackendFailing]_vars /\ Fairness

\* ================================================================ claims ==
HttpAnswered == proto = "http" /\ hpc = "called" /\ resp # None
Remainder == PathSplit(request.path_info)[3]
SpawnPath == PathParts(popen[1].args[Len(popen[1].args)])

\* C1: a Smart HTTP request whose path remainder is not info/refs and whose
\* Accept header is none of the application/x-<op>-result values gets the
\* status 403 Forbidden, and no tool process is spawned.
C1_ForbiddenStatus ==
    (/\ HttpAnswered
     /\ Remainder # "info/refs"
     /\ request.accept \notin {Some("application/x-git-upload-pack-result"),
                               Some("application/x-git-receive-pack-result")})
    => (resp[1].status = "403 Forbidden" /\ popen = None)

\* An info/refs request for git-upload-pack that was answered.
InfoRefsUploadPack ==
    /\ HttpAnswered
    /\ Remainder = "info/refs"
    /\ from_query(request.query_string, "service") = Some("git-upload-pack")

\* The body of an info/refs response is the announcement a, then the bytes
\* the tool wrote to its standard output, in order and unmodified: what was
\* yielded, with what is still on its way, is a plus all the tool wrote,
\* and once the sequence has ended all of it was yielded.
AdvertisementBody(a) ==
    /\ resp[1].status = "200 OK"
    /\ resp[1].headers["Content-Type"] = "application/x-git-upload-pack-advertisement"
    /\ yielded # <<>> =>
        /\ yielded[1] = a
        /\ Concat(yielded) \o out_buf \o stdout_pipe = a \o tool_wrote
    /\ opc = "stopped" => (Concat(yielded) = a \o tool_wrote /\ tool_out = "")

\* C2 (as amended): for GET /<repo>/info/refs?service=git-upload-pack the
\* body begins with exactly "001e# service=git-upload-pack\n0000" (the
\* prefix is the length of "# service=git-upload-pack\n" plus that of
\* "0000", 30), followed by the tool's stdout bytes in order and unmodified,
\* and the Content-Type is application/x-git-upload-pack-advertisement.
C2_AdvertisementBody ==
    InfoRefsUploadPack => AdvertisementBody("001e# service=git-upload-pack\n0000")

\* C2 (as stated): the same with the prefix "0032".
C2_AdvertisementBody0032 ==
    InfoRefsUploadPack => AdvertisementBody("0032# service=git-upload-pack\n0000")

C2_Witness ==
    /\ InfoRefsUploadPack /\ opc = "stopped"
    /\ tool_wrote = "refs" /\ Len(yielded) = 3 /\ yielded[2] \o yielded[3] = "refs"

\* The Content-Length a backend POST declares (None without one).
DeclaredLength == ContentLength(request.content_length).value
BackendSpawned == proto = "http" /\ popen # None /\ popen[1].stdin = "pipe"

\* C3: for a backend POST with Content-Length: N, with or without gzip,
\* whatever the transport offers, the bytes written to the tool's stdin
\* never number more than N.
C3_StdinWithinContentLength ==
    (BackendSpawned /\ DeclaredLength # None) => Len(stdin_written) <= DeclaredLength[1]

\* The body of the request as the input stream should deliver it: the first
\* N bytes offered under Content-Length: N, all that is offered without one.
DeclaredBody ==
    IF stream_kind = "limited" THEN Take(offered, DeclaredLength[1]) ELSE offered

\* A backend request with a plain body of more than one chunk that arrives
\* in full: the transport offers it all, or ends.
EchoRequest ==
    /\ BackendSpawned /\ ~gzip
    /\ Len(DeclaredBody) > POPEN_READ_SIZE
    /\ net_eof \/ (stream_kind = "limited" /\ Len(offered) >= DeclaredLength[1])

\* The outbound sequence has ended and the chunks it yielded are, put
\* together, the bytes the inbound worker fed to the tool; they are the body
\* of the request, which a LimitedFile over a transport that returns short
\* reads before its end does not deliver in full.
EchoDelivered ==
    /\ opc = "stopped"
    /\ Concat(yielded) = stdin_written
    /\ (stream_kind = "raw" \/ ~short_reads) => Concat(yielded) = DeclaredBody
    /\ \A i \in DOMAIN yielded : yielded[i] # ""

DecodedLength == PyInt(Take(sent.lenField \o sent.payload, 4), 16)
NativeParsed == proto = "git" /\ npc # "parse"

\* C5: a native request whose decoded length is below 5 or above 65524 is
\* answered with the invalid-length error packet; no read follows that of
\* the four length bytes, nothing is parsed and no process is spawned.
C5_LengthRejected ==
    (NativeParsed /\ DecodedLength.ok /\ (DecodedLength.val < 5 \/ DecodedLength.val > 65524))
    => /\ wfile = "001dERR Invalid request data\n0000"
       /\ reads = <<4>>
       /\ git_request = None
       /\ popen = None
       /\ npc = "done"

C5_Witness ==
    /\ NativeParsed /\ sent.lenField \in {"0004", "fff5"} /\ reads = <<4>>
    /\ wfile # "" /\ rfile = sent.payload

\* A request the parser accepts: it follows the grammar, extra parameters
\* come after a host parameter, and a host parameter that ends the request
\* is host=<name> with an optional numeric port.
ValidRequest ==
    /\ sent.kind = "grammar"
    /\ sent.host = None => sent.extras = <<>>
    /\ (sent.host # None /\ sent.extras = <<>> /\ ~EndsWith(sent.payload, NUL \o NUL))
        => sent.host \in {Some("host=h"), Some("host=h:9")}

\* C6: from a valid native request the parser recovers exactly the command
\* and the pathname the client sent and, as extraParameters, exactly the
\* tokens between the separator and the terminator, in order (none when the
\* request has two or three parts).
C6_RequestRecovered ==
    (NativeParsed /\ ValidRequest)
    => /\ git_request # None
       /\ git_request[1].command = sent.command
       /\ git_request[1].pathname = sent.pathname
       /\ git_request[1].extra_parameters = sent.extras

C6_Witness ==
    /\ NativeParsed /\ ValidRequest
    /\ sent.extras = <<"a=b", "version=2">>
    /\ git_request # None /\ git_request[1].extra_parameters = <<"a=b", "version=2">>
    /\ git_request[1].pathname = "/r.git"

NativeSpawned == proto = "git" /\ popen # None

\* C7: when the client gave a version hint version=<n>, the spawned tool's
\* environment has GIT_PROTOCOL = "version=<n>" whatever the environment
\* of the server, and every other variable is inherited.
C7_VersionExported ==
    (NativeSpawned /\ version # None)
    => /\ "GIT_PROTOCOL" \in DOMAIN ChildEnv(popen[1])
       /\ ChildEnv(popen[1])["GIT_PROTOCOL"] = "version=" \o PyStr(version[1])
       /\ \A k \in (DOMAIN os_environ) \ {"GIT_PROTOCOL"} :
            k \in DOMAIN ChildEnv(popen[1]) /\ ChildEnv(popen[1])[k] = os_environ[k]

\* The extra parameters that start with "version=", by position.
VersionTokens(extras) == { i \in DOMAIN extras : StartsWith(extras[i], "version=") }
NoVersionToken(extras) == VersionTokens(extras) = {}
LastVersionToken(extras) ==
    extras[CHOOSE i \in VersionTokens(extras) : \A j \in VersionTokens(extras) : j <= i]

\* Without a version token there is no protocolVersion, no GIT_PROTOCOL is
\* added, and the tool runs in the very environment of the server.
InheritsEnvironment ==
    NoVersionToken(git_request[1].extra_parameters)
    => (version = None /\ popen[1].env = None /\ ChildEnv(popen[1]) = os_environ)

\* C8 (as amended): extraParameters whose last token starting with version=
\* is version=2 yield protocolVersion 2; with no such token protocolVersion
\* is None, no GIT_PROTOCOL is added and the environment is the server's.
C8_LastVersionDecides ==
    NativeSpawned
    => /\ (/\ ~NoVersionToken(git_request[1].extra_parameters)
           /\ LastVersionToken(git_request[1].extra_parameters) = "version=2")
          => version = Some(2)
       /\ InheritsEnvironment

\* C8 (as stated): extraParameters containing version=2 yield 2.
C8_AnyVersion2Decides ==
    NativeSpawned
    => /\ (\E i \in DOMAIN git_request[1].extra_parameters :
                git_request[1].extra_parameters[i] = "version=2")
          => version = Some(2)
       /\ InheritsEnvironment

C8_Witness ==
    /\ NativeSpawned
    /\ git_request[1].extra_parameters = <<"version=1", "version=2">>
    /\ version = Some(2)

\* The four kinds of rejection, read off the request the client sent and
\* what the parser made of it.
MalformedLength == Len(sent.lenField) = 4 /\ ~DecodedLength.ok
MalformedRequest == sent.kind = "malformed"
UnsupportedCommand ==
    git_request # None /\ git_request[1].command \notin {"git-upload-pack", "git-receive-pack"}
RepositoryNotFound ==
    /\ git_request # None /\ ~UnsupportedCommand
    /\ ~Exists(NativeRepoPath(git_request[1].pathname))
ErrReplied == Len(wfile) >= 8 /\ SubSeq(wfile, 5, 8) = "ERR "

\* C9: each of MalformedLength, MalformedRequest, UnsupportedCommand and
\* RepositoryNotFound has an ERR pkt-line written to the client by the time
\* the handler ends, and no tool process spawned.
C9_RejectionsReplied ==
    (/\ proto = "git" /\ npc = "done"
     /\ (MalformedLength \/ MalformedRequest \/ UnsupportedCommand \/ RepositoryNotFound))
    => (ErrReplied /\ popen = None)

\* C10: in both transports a tool process is spawned only on a repository
\* path that lies under the configured root.
C10_SpawnedUnderRoot == popen # None => UnderRoot(SpawnPath)

\* C11: in both transports a request whose repository path does not exist
\* is answered with the transport's error reply and no tool process is
\* spawned.
C11_MissingRepositoryRejected ==
    /\ (proto = "git" /\ npc = "done" /\ RepositoryNotFound)
        => (ErrReplied /\ popen = None)
    /\ (HttpAnswered /\ ~Exists(HttpRepoPath(request.path_info)))
        => (popen = None /\ resp[1].class # "HTTPResponse")

\* The operation a backend path names, and whether the request may run it:
\* the last path segment is one of the two commands and the Accept header
\* names the result type of that very command.
BackendOperation == RSplitLast(request.path_info, "/")
AcceptMatchesOperation ==
    /\ BackendOperation \in {"git-upload-pack", "git-receive-pack"}
    /\ request.accept = Some("application/x-" \o BackendOperation \o "-result")

\* C12: on a path whose remainder is not info/refs a tool process is
\* spawned only if the last segment is one of the two commands and Accept
\* is application/x-<that command>-result; every other request is rejected
\* as Forbidden and spawns nothing.
C12_AcceptNamesOperation ==
    (HttpAnswered /\ Remainder # "info/refs")
    => /\ popen # None => AcceptMatchesOperation
       /\ ~AcceptMatchesOperation => (popen = None /\ resp[1].class = "HTTPForbidden")

\* The identifier the client gave for the repository, in either transport,
\* and the path the request was taken to: that of the spawned tool.
HttpSpawned == proto = "http" /\ popen # None
HttpIdentifier == PathSplit(request.path_info)[2]
HttpTwinPath == "/" \o HttpIdentifier \o ".git/" \o Remainder
HasSuffix(name) == EndsWith(name, ".git")

\* An identifier with the suffix is taken to the path of the identifier
\* with that one suffix removed, whatever remains.
OneSuffixStripped ==
    /\ (NativeSpawned /\ HasSuffix(sent.pathname))
        => SpawnPath = PathJoin(repo_root, Drop(DropLast(sent.pathname, Len(".git")), 1))
    /\ (HttpSpawned /\ HasSuffix(HttpIdentifier))
        => SpawnPath = Resolve(PathJoin(repo_root, DropLast(HttpIdentifier, Len(".git"))))

\* C13 (as amended): for every repository name R that does not itself end
\* with ".git", the identifiers R and R.git resolve to the same path, in the
\* native protocol and in Smart HTTP: the path a request naming R is taken
\* to is the path of R.git; exactly one trailing suffix is stripped.
C13_SuffixOptional ==
    /\ (NativeSpawned /\ ~HasSuffix(sent.pathname))
        => SpawnPath = NativeRepoPath(sent.pathname \o ".git")
    /\ (HttpSpawned /\ ~HasSuffix(HttpIdentifier))
        => SpawnPath = HttpRepoPath(HttpTwinPath)
    /\ OneSuffixStripped

\* C13 (as stated): the same for every repository name R.
C13_SuffixOptionalEveryName ==
    /\ NativeSpawned => SpawnPath = NativeRepoPath(sent.pathname \o ".git")
    /\ HttpSpawned => SpawnPath = HttpRepoPath(HttpTwinPath)
    /\ OneSuffixStripped

C13_Witness ==
    /\ NativeSpawned /\ sent.pathname = "/r"
    /\ SpawnPath = <<"s", "r">> /\ NativeRepoPath("/r.git") = <<"s", "r">>

\* A payload was framed by pkt_line and the frame read back.
PacketRead == proto = "pkt" /\ npc = "done"
\* The frame read back gave the payload and its length plus four.
RoundTrip ==
    /\ request_data = Some(sent.payload)
    /\ reads = <<4, (Len(sent.payload) + 4) - 4>>
    /\ ~raised /\ wfile = ""

\* C14 (as amended): for every payload P of 1 to 65520 bytes, framing P with
\* pkt_line and reading the frame with the initial-request reader (4 bytes
\* as the hex length L, then L - 4 bytes) gives back exactly P, and
\* L = len(P) + 4.
C14_RoundTrip ==
    (PacketRead /\ Len(sent.payload) >= 1 /\ Len(sent.payload) <= 65520) => RoundTrip

\* C14 (as stated): the same for every payload P.
C14_RoundTripEveryPayload == PacketRead => RoundTrip

C14_Witness ==
    /\ PacketRead /\ Len(sent.payload) = 65520 /\ RoundTrip
    /\ rfile = "0000"

\* The bytes the inbound worker's source has given so far: what was taken
\* from the transport, decompressed if the body is compressed.
ConsumedBytes == Take(offered, Len(offered) - Len(net))
SourceBytes == IF gzip THEN Inflate(ConsumedBytes) ELSE ConsumedBytes
\* The source is at its end: its next read is empty.
SourceAtEnd ==
    IF gzip THEN zeof /\ zbuf = ""
    ELSE (stream_kind = "limited" /\ remain = 0) \/ (net = "" /\ net_eof)

\* What was written to stdin, with the chunk in hand, is what the source
\* gave, in order; the copy ends, and stdin is closed, only at the end of
\* the source.
CopiedInOrder ==
    BackendSpawned
    => /\ stdin_written \o inbuf \o zbuf = SourceBytes
       /\ wpc = "done" => (SourceAtEnd /\ inbuf = "" /\ stdin_closed)
       /\ stdin_closed => wpc = "done"

\* The body arrives: the transport ends, or offers all that was declared.
BodyArrives ==
    /\ BackendSpawned
    /\ net_eof \/ (stream_kind = "limited" /\ Len(offered) >= DeclaredLength[1])
ToolSawEndOfInput ==
    /\ stdin_closed /\ tpc # "reading"
    /\ tool_stdin = stdin_written /\ stdin_written = SourceBytes

\* C15: the inbound worker of a backend request writes to the tool's stdin
\* exactly the bytes read from the (limited, decompressed) body, in order;
\* a short read that is not empty never ends the copy; and once the source
\* is at its end stdin is closed and the tool sees the end of its input.
C15_InboundCopy == [](CopiedInOrder) /\ (BodyArrives ~> ToolSawEndOfInput)

C15_Witness ==
    /\ BodyArrives /\ ToolSawEndOfInput
    /\ stream_kind = "raw" /\ short_reads /\ stdin_written = "abcd"

\* C16: when a read of the inbound copy fails, the session is torn down: the
\* tool is not left waiting for the end of its input on a stdin that stays
\* open, and the outbound sequence ends.
C16_FailureTearsDown ==
    (BackendSpawned /\ wpc = "failed") ~> (tpc # "reading" /\ opc = "stopped")

\* The chunks PopenIterWrapper has yielded: all that the response yielded
\* but the announcement that inforefs puts first.
ToolChunks ==
    IF popen[1].stdin # "pipe" /\ yielded # <<>> THEN Tail(yielded) ELSE yielded
StdoutAtEnd == stdout_closed /\ stdout_pipe = "" /\ out_buf = ""

\* C17: the outbound sequence yields every non-empty chunk read from the
\* tool's stdout, in order; it ends only after a read of stdout returned
\* empty and the exit status was obtained, never on a short chunk that is
\* not empty, and it ends alike for a zero and a non-zero status, which
\* neither alters nor adds to the bytes yielded.
C17_OutboundSequence ==
    HttpSpawned
    => /\ Concat(ToolChunks) \o out_buf \o stdout_pipe = tool_wrote
       /\ \A i \in DOMAIN ToolChunks :
            ToolChunks[i] # "" /\ Len(ToolChunks[i]) <= POPEN_READ_SIZE
       /\ opc \in {"wait", "stopped"} => StdoutAtEnd
       /\ opc = "stopped"
            => (returncode # None /\ tool_out = "" /\ Concat(ToolChunks) = tool_wrote)

C17_Witness ==
    /\ HttpSpawned /\ opc = "stopped" /\ returncode = Some(1)
    /\ ToolChunks = <<"ab", "c">>

\* C18: in the native protocol, when the spawned tool exits with a status
\* other than zero the server writes the ERR pkt-line "Execute error." to
\* the client, after the process has exited and before the handler returns;
\* when it exits with status zero the server itself writes nothing: the
\* connection carries what the tool wrote and no more.
C18_ExecuteErrorReplied ==
    NativeSpawned
    => /\ npc = "wait" => wfile = tool_wrote
       /\ npc = "done" => returncode # None
       /\ (npc = "done" /\ returncode # None /\ returncode # Some(0))
            => wfile = tool_wrote \o "0018ERR Execute error. \n0000"
       /\ (npc = "done" /\ returncode = Some(0)) => wfile = tool_wrote

C18_Witness ==
    /\ NativeSpawned /\ npc = "done" /\ returncode = Some(1)
    /\ tool_wrote = "PACK" /\ wfile = "PACK0018ERR Execute error. \n0000"

\* C19: the native parser consumes exactly the length bytes of the request
\* (4 and length - 4), and every byte the client sends after the request
\* reaches the stdin of the spawned tool, in order, those that had arrived
\* before the spawn as well: none stays in the server's read buffer.
C19_FollowingBytesReachTool ==
    /\ (proto = "git" /\ npc # "parse" /\ sent.kind = "grammar")
        => (request_data = Some(sent.payload) /\ reads = <<4, Len(sent.payload)>>)
    /\ NativeSpawned => rbuf = ""
    /\ (NativeSpawned /\ returncode # None) => tool_stdin = sent.after

\* Every byte the tool wrote or has still to write to its standard error.
StderrText == Concat(stderr_queue) \o err_buf \o stderr_pipe \o tool_err

\* C20: when the outbound worker reads the stderr buffer for the diagnostic
\* of a non-zero exit, the stderr worker has reached the end of the data:
\* the text read is every byte the process wrote to stderr, in order.
C20_DiagnosticComplete ==
    (HttpSpawned /\ error_msg # None) => error_msg = Some(StderrText)

\* A LimitedFile bounded to the declared length N, read directly by the
\* copy, over a transport that holds at least N bytes.
LimitedFileRead ==
    /\ BackendSpawned /\ stream_kind = "limited" /\ ~gzip
    /\ Len(offered) >= DeclaredLength[1]

\* C21: a LimitedFile bounded to N over a stream holding at least N bytes,
\* read until an empty result, returns exactly the first N bytes of the
\* stream, short reads of the stream included; remain stays within 0..N
\* and is N less the number of bytes delivered.
C21_LimitedFileExact ==
    LimitedFileRead
    => /\ remain \in 0..DeclaredLength[1]
       /\ remain = DeclaredLength[1] - Len(ConsumedBytes)
       /\ wpc = "done" => ConsumedBytes = Take(offered, DeclaredLength[1])

====
